---- MODULE Spec2Model ----
(***************************************************************************)
(* Life PM (focused-life-hq): the Kanban board's drag-and-drop ordering    *)
(* and the AppContext task actions it drives.                              *)
(*                                                                         *)
(* Two BoardView implementations exist in the repository: the one with     *)
(* optimistic local state (@hello-pangea/dnd) and the library-based one    *)
(* (@dnd-kit).  A build mounts one of them: `variant` says which.          *)
(*                                                                         *)
(* Every AppContext action is a closure over the `data` of the render it   *)
(* was created in and ends in persistData: setData(newData) followed by a  *)
(* saveData upsert.  Calls made one after another inside one event handler *)
(* therefore all start from the same rendered data, and the last setData   *)
(* is the one React commits.                                               *)
(*                                                                         *)
(* The board's area filter is left at its initial value 'all'; the project *)
(* filter narrows filteredTasks in the same way and is modelled.           *)
(*                                                                         *)
(* The user's row in the store (supabaseStorage: loadData, saveData,       *)
(* initializeData, resetData, setCurrentProfileId) and the profile actions *)
(* of AppContext are modelled over profiles reduced to id and name.        *)
(*                                                                         *)
(* The project actions (createProject, deleteProject) and the signup form  *)
(* (SignupForm) have specifications of their own, SpecProjects and         *)
(* SpecSignup.                                                             *)
(***************************************************************************)
EXTENDS Integers, Sequences, FiniteSets, TLC

VARIABLES
    variant,        \* which BoardView the build mounts
    tasks,          \* AppContext: currentProfile.tasks as rendered
    localTasks,     \* BoardView (optimistic variant): useState localTasks
    lastTaskCount,  \* BoardView (optimistic variant): lastTaskCountRef.current
    projectFilter,  \* BoardView: useState projectFilter
    store,          \* user_data row: the tasks of the stored blob
    inflight,       \* saveData upserts sent and not yet answered
    clock,          \* Date.now(), advanced once per event handler
    opsLeft,        \* event handlers the model still lets run
    last,           \* record of the last event handler run (history)
    appData,        \* AppContext: data.profiles and data.currentProfileId
    userRow,        \* user_data row: the profiles and currentProfileId stored
    awaiting,       \* profile actions suspended at an await, upserts in flight
    projects,       \* AppContext: currentProfile.projects as rendered
    signup          \* SignupForm: its state, its render and its pending work

vars == <<variant, tasks, localTasks, lastTaskCount, projectFilter, store,
          inflight, clock, opsLeft, last, appData, userRow, awaiting, projects,
          signup>>

\* the state of the board and of the current profile's tasks
taskVars == <<variant, tasks, localTasks, lastTaskCount, projectFilter, store,
              inflight>>

\* the state at the level of profiles
profileVars == <<appData, userRow, awaiting>>

\* the projects of the current profile
projectVars == <<projects>>

\* the signup form
signupVars == <<signup>>

-----------------------------------------------------------------------------
(* Bounds *)

MaxTasks == 3      \* tasks in the loaded profile
MaxInitOrder == 1  \* largest order value in the loaded data
MaxOps == 1        \* event handlers run on loaded data (Spec)
MaxMoves == 2      \* event handlers run on freshly created tasks (SpecTwoMoves)

-----------------------------------------------------------------------------
(* Values *)

\* order?: number -- an absent order (undefined)
Absent == -1

\* Number.MAX_SAFE_INTEGER stands in for an absent order in every sort.  TLC
\* integers are 32 bits wide; every order of the model is far below this.
MAX_SAFE_INTEGER == 2147483647

COLUMNS == <<"backlog", "todo", "in-progress", "blocked", "done">>

ColumnIds == {COLUMNS[i] : i \in DOMAIN COLUMNS}

\* a status string that is not a TaskStatus (data imported from JSON)
UnknownStatus == "archived"

NoProject == "none"

ProjectIds == {"p1"}

MissingId == "missing-id"

\* uuidv4(): the n-th id handed out
IdOf(n) ==
    CASE n = 1 -> "t1" [] n = 2 -> "t2" [] n = 3 -> "t3" [] n = 4 -> "t4"
      [] n = 5 -> "t5" [] n = 6 -> "t6" [] n = 7 -> "t7" [] OTHER -> "t8"

-----------------------------------------------------------------------------
(* Sequences *)

Ids(s) == [i \in DOMAIN s |-> s[i].id]

IdSet(s) == {s[i].id : i \in DOMAIN s}

\* Array.prototype.findIndex on ids, 1-based; 0 when not found (-1 in the code)
FindIndex(s, id) ==
    IF \E i \in DOMAIN s : s[i].id = id
    THEN CHOOSE i \in DOMAIN s : s[i].id = id /\ \A j \in 1..(i - 1) : s[j].id # id
    ELSE 0

\* the comparator of every column sort: order (absent = MAX_SAFE_INTEGER), then createdAt
\* a sort key that reads the order field as it is, absent or not
OrderKey_Raw(t) == t.order

OrderKey(t) == IF t.order = Absent THEN MAX_SAFE_INTEGER ELSE t.order

Compare(a, b) ==
    IF OrderKey(a) # OrderKey(b) THEN OrderKey(a) - OrderKey(b)
    ELSE a.createdAt - b.createdAt

RECURSIVE InsertSorted(_, _)
InsertSorted(s, t) ==
    IF s = <<>> THEN <<t>>
    ELSE IF Compare(t, Head(s)) < 0 THEN <<t>> \o s
         ELSE <<Head(s)>> \o InsertSorted(Tail(s), t)

RECURSIVE SortTasks(_)
\* Array.prototype.sort with Compare: a stable sort
SortTasks(s) ==
    IF s = <<>> THEN <<>>
    ELSE InsertSorted(SortTasks(SubSeq(s, 1, Len(s) - 1)), s[Len(s)])

-----------------------------------------------------------------------------
(* BoardView: the column projection (both variants share it) *)

\* filteredTasks: the project filter applied to the board's task list
FilteredTasks(ts, pf) ==
    SelectSeq(ts, LAMBDA t : pf = "all" \/ t.projectId = pf)

\* tasksByStatus.  grouped[task.status].push(task) is a TypeError when
\* task.status is no key of grouped: the render throws and `threw` is set.
TasksByStatus(ft) ==
    IF \E i \in DOMAIN ft : ft[i].status \notin ColumnIds
    THEN [threw |-> TRUE, grouped |-> [c \in ColumnIds |-> <<>>]]
    ELSE [threw |-> FALSE,
          grouped |-> [c \in ColumnIds |->
                         SortTasks(SelectSeq(ft, LAMBDA t : t.status = c))]]

-----------------------------------------------------------------------------
(* BoardView, optimistic variant: handleDragEnd's computation of updatedTasks *)

\* updatedTasks[i] = {...updatedTasks[i], order, updatedAt: now}; i is 1-based
SetOrderAt(u, i, ord, now) ==
    IF i = 0 THEN u
    ELSE [u EXCEPT ![i] = [@ EXCEPT !.order = ord, !.updatedAt = now]]

RECURSIVE ShiftFrom(_, _, _, _, _)
\* for (let i = from; i < list.length; i++) order of list[i] becomes i + delta
ShiftFrom(u, list, i, delta, now) ==
    IF i >= Len(list) THEN u
    ELSE ShiftFrom(SetOrderAt(u, FindIndex(u, list[i + 1].id), i + delta, now),
                   list, i + 1, delta, now)

\* the cross-column branch
CrossColumnMove(u0, taskId, sourceStatus, sourceIndex, destinationStatus, destinationIndex, now) ==
    LET taskIndex == FindIndex(u0, taskId)
        u1 == [u0 EXCEPT ![taskIndex] =
                 [@ EXCEPT !.status = destinationStatus,
                           !.order = destinationIndex,
                           !.updatedAt = now]]
        tasksInDestination ==
            SortTasks(SelectSeq(u1, LAMBDA t : t.status = destinationStatus
                                               /\ t.id # taskId))
        u2 == ShiftFrom(u1, tasksInDestination, destinationIndex, 1, now)
        tasksInSource ==
            SortTasks(SelectSeq(u2, LAMBDA t : t.status = sourceStatus
                                               /\ t.id # taskId))
    IN  ShiftFrom(u2, tasksInSource, sourceIndex, 0, now)

\* Array.prototype.splice(index, 1) on a list of ids: the list that is left
SpliceOut(ids, index) ==
    IF index < Len(ids)
    THEN SubSeq(ids, 1, index) \o SubSeq(ids, index + 2, Len(ids))
    ELSE ids

\* Array.prototype.splice(index, 0, x): x goes in at min(index, length)
SpliceIn(ids, index, x) ==
    LET at == IF index < Len(ids) THEN index ELSE Len(ids)
    IN  SubSeq(ids, 1, at) \o <<x>> \o SubSeq(ids, at + 1, Len(ids))

RECURSIVE Renumber(_, _, _, _)
\* tasksInStatus.forEach((t, index) => ...): a write only where order !== index
Renumber(u, ids, index, now) ==
    IF index >= Len(ids) THEN u
    ELSE LET ti == FindIndex(u, ids[index + 1])
             v == IF ti # 0 /\ u[ti].order # index
                  THEN SetOrderAt(u, ti, index, now) ELSE u
         IN  Renumber(v, ids, index + 1, now)

\* the same-column branch.  When oldIndex is past the end, splice removes
\* nothing, movedTask is undefined, and forEach throws on t.id.
SameColumnThrows(u0, sourceStatus, oldIndex) ==
    oldIndex >= Len(SelectSeq(u0, LAMBDA t : t.status = sourceStatus))

\* a same-column branch that writes the moved task's order only
SameColumnMove_OnlyMoved(u0, sourceStatus, oldIndex, newIndex, now) ==
    LET tasksInStatus ==
            Ids(SortTasks(SelectSeq(u0, LAMBDA t : t.status = sourceStatus)))
    IN  SetOrderAt(u0, FindIndex(u0, tasksInStatus[oldIndex + 1]), newIndex, now)

SameColumnMove(u0, sourceStatus, oldIndex, newIndex, now) ==
    LET tasksInStatus ==
            Ids(SortTasks(SelectSeq(u0, LAMBDA t : t.status = sourceStatus)))
        movedTask == tasksInStatus[oldIndex + 1]
        reordered == SpliceIn(SpliceOut(tasksInStatus, oldIndex), newIndex, movedTask)
    IN  Renumber(u0, reordered, 0, now)

\* a handleDragEnd without the same-position return
DragOutcome_NoPositionGuard(local, result) ==
    IF ~result.hasDestination THEN "noDestination"
    ELSE IF FindIndex(local, result.draggableId) = 0 THEN "notFound"
    ELSE IF result.source.droppableId \notin ColumnIds
            \/ result.destination.droppableId \notin ColumnIds THEN "invalidStatus"
    ELSE IF result.source.droppableId = result.destination.droppableId
            /\ SameColumnThrows(local, result.source.droppableId, result.source.index)
         THEN "threw"
    ELSE "moved"

\* a handleDragEnd without the validation of the two statuses
DragOutcome_NoValidation(local, result) ==
    IF ~result.hasDestination THEN "noDestination"
    ELSE IF result.destination.droppableId = result.source.droppableId
            /\ result.destination.index = result.source.index THEN "samePosition"
    ELSE IF FindIndex(local, result.draggableId) = 0 THEN "notFound"
    ELSE IF result.source.droppableId = result.destination.droppableId
            /\ SameColumnThrows(local, result.source.droppableId, result.source.index)
         THEN "threw"
    ELSE "moved"

\* a handleDragEnd without the two task lookups
DragOutcome_NoLookup(local, result) ==
    IF ~result.hasDestination THEN "noDestination"
    ELSE IF result.destination.droppableId = result.source.droppableId
            /\ result.destination.index = result.source.index THEN "samePosition"
    ELSE IF result.source.droppableId \notin ColumnIds
            \/ result.destination.droppableId \notin ColumnIds THEN "invalidStatus"
    ELSE IF result.source.droppableId = result.destination.droppableId
            /\ SameColumnThrows(local, result.source.droppableId, result.source.index)
         THEN "threw"
    ELSE "moved"

\* handleDragEnd up to setLocalTasks: which return it takes, and updatedTasks.
\* result = [draggableId, hasDestination, source, destination], indices 0-based.
DragOutcome(local, result) ==
    IF ~result.hasDestination THEN "noDestination"
    ELSE IF result.destination.droppableId = result.source.droppableId
            /\ result.destination.index = result.source.index THEN "samePosition"
    ELSE IF FindIndex(local, result.draggableId) = 0 THEN "notFound"
    ELSE IF result.source.droppableId \notin ColumnIds
            \/ result.destination.droppableId \notin ColumnIds THEN "invalidStatus"
    ELSE IF result.source.droppableId = result.destination.droppableId
            /\ SameColumnThrows(local, result.source.droppableId, result.source.index)
         THEN "threw"
    ELSE "moved"

ComputeUpdatedTasks(local, result, now) ==
    IF DragOutcome(local, result) # "moved" THEN local
    ELSE IF result.source.droppableId # result.destination.droppableId
    THEN CrossColumnMove(local, result.draggableId, result.source.droppableId, result.source.index, result.destination.droppableId, result.destination.index, now)
    ELSE SameColumnMove(local, result.source.droppableId, result.source.index, result.destination.index, now)

\* one call of an AppContext task action, as the persist loop issues it
Call(fn, id, updates) == [fn |-> fn, id |-> id, updates |-> updates]

\* the persist loop's calls for one updatedTask against currentProfile.tasks
PersistCallsFor(ctx, updatedTask) ==
    LET oi == FindIndex(ctx, updatedTask.id)
    IN  IF oi = 0 THEN <<>>
        ELSE IF ctx[oi].status # updatedTask.status
        THEN <<Call("updateTaskStatus", updatedTask.id, [status |-> updatedTask.status])>>
             \o (IF ctx[oi].order # updatedTask.order
                 THEN <<Call("updateTask", updatedTask.id, [order |-> updatedTask.order])>>
                 ELSE <<>>)
        ELSE IF ctx[oi].order # updatedTask.order
        THEN <<Call("updateTask", updatedTask.id, [order |-> updatedTask.order])>>
        ELSE <<>>

RECURSIVE PersistCalls(_, _)
\* updatedTasks.forEach(...): the calls in the order they are issued
PersistCalls(ctx, updatedTasks) ==
    IF updatedTasks = <<>> THEN <<>>
    ELSE PersistCallsFor(ctx, Head(updatedTasks)) \o PersistCalls(ctx, Tail(updatedTasks))

\* the effect that re-syncs localTasks with currentProfile.tasks
SyncNeeded(ctx, local, count) ==
    \/ Len(ctx) # count
    \/ \E id \in IdSet(local) : id \notin IdSet(ctx)
    \/ \E id \in IdSet(ctx) : id \notin IdSet(local)

-----------------------------------------------------------------------------
(* AppContext: the task actions, as functions of the rendered task list *)

Field(t, updates, k) == IF k \in DOMAIN updates THEN updates[k] ELSE t[k]

\* { ...t, ...updates, updatedAt: now } without the completedAt rule
UpdatedTask_PlainSpread(t, updates, now) ==
    [id |-> Field(t, updates, "id"),
     title |-> Field(t, updates, "title"),
     status |-> Field(t, updates, "status"),
     order |-> Field(t, updates, "order"),
     projectId |-> Field(t, updates, "projectId"),
     isToday |-> Field(t, updates, "isToday"),
     createdAt |-> Field(t, updates, "createdAt"),
     updatedAt |-> now,
     completedAt |-> Field(t, updates, "completedAt")]

\* { ...t, ...updates, updatedAt: now } and the completedAt rule
UpdatedTask(t, updates, now) ==
    [id |-> Field(t, updates, "id"),
     title |-> Field(t, updates, "title"),
     status |-> Field(t, updates, "status"),
     order |-> Field(t, updates, "order"),
     projectId |-> Field(t, updates, "projectId"),
     isToday |-> Field(t, updates, "isToday"),
     createdAt |-> Field(t, updates, "createdAt"),
     updatedAt |-> now,
     completedAt |-> IF "status" \in DOMAIN updates /\ updates.status = "done" /\ t.status # "done"
                     THEN now ELSE Field(t, updates, "completedAt")]

\* an updateTask that drops the order of the task it updates
UpdateTask_DropsOrder(ctx, id, updates, now) ==
    [i \in DOMAIN ctx |->
        IF ctx[i].id = id
        THEN [UpdatedTask(ctx[i], updates, now) EXCEPT
                !.order = IF "order" \in DOMAIN updates THEN updates.order ELSE Absent]
        ELSE ctx[i]]

\* updateTask: currentProfile.tasks.map(...)
UpdateTask(ctx, id, updates, now) ==
    [i \in DOMAIN ctx |-> IF ctx[i].id = id THEN UpdatedTask(ctx[i], updates, now) ELSE ctx[i]]

\* createTask: { ...task, id: uuidv4(), createdAt: now, updatedAt: now } appended
CreateTask(ctx, task, id, now) ==
    Append(ctx, [id |-> id, title |-> task.title, status |-> task.status,
                 order |-> IF "order" \in DOMAIN task THEN task.order ELSE Absent,
                 projectId |-> task.projectId, isToday |-> task.isToday,
                 createdAt |-> now, updatedAt |-> now, completedAt |-> Absent])

\* deleteTask: currentProfile.tasks.filter(t => t.id !== id)
DeleteTask(ctx, id) == SelectSeq(ctx, LAMBDA t : t.id # id)

\* what one call makes of the rendered task list
CallData(ctx, call, now) ==
    CASE call.fn = "createTask" -> CreateTask(ctx, call.updates, call.id, now)
      [] call.fn = "deleteTask" -> DeleteTask(ctx, call.id)
      [] OTHER -> UpdateTask(ctx, call.id, call.updates, now)

\* the data each call hands to persistData, all computed from the same render
Blobs(ctx, calls, now) == {CallData(ctx, calls[i], now) : i \in DOMAIN calls}

\* the data React commits after the handler: the last setData of the batch
Committed(ctx, calls, now) ==
    IF calls = <<>> THEN ctx ELSE CallData(ctx, calls[Len(calls)], now)

-----------------------------------------------------------------------------
(* BoardView, library-based variant: handleDragEnd *)

\* arrayMove of @dnd-kit/sortable: splice out at `from`, splice in at `to`
ArrayMove(ids, from, to) == SpliceIn(SpliceOut(ids, from), to, ids[from + 1])

\* Math.max(...tasksInNewStatus.map(t => t.order ?? 0), -1) + 1, or 0 for an empty column
MaxOrder(col) ==
    IF Len(col) = 0 THEN 0
    ELSE LET vals == {IF col[i].order = Absent THEN 0 ELSE col[i].order : i \in DOMAIN col}
             all == vals \cup {-1}
         IN  (CHOOSE m \in all : \A v \in all : v <= m) + 1

\* the status a drop on a column droppable names: droppable data first, then the id
\* ("column-<status>" or "column-content-<status>"); "" stands for null
NewStatusOf(over) ==
    IF over.dataType = "column" /\ over.dataStatus # "" THEN over.dataStatus
    ELSE IF over.prefix = "column-content-" THEN over.rest
    ELSE IF over.prefix = "column-" THEN over.rest
    ELSE ""

RECURSIVE RangeCalls(_, _, _, _)
\* for (let i = startIndex; i <= endIndex; i++) updateTask where order !== i
RangeCalls(ctx, reordered, i, endIndex) ==
    IF i > endIndex THEN <<>>
    ELSE LET t == ctx[FindIndex(ctx, reordered[i + 1])]
         IN  (IF t.order # i THEN <<Call("updateTask", t.id, [order |-> i])>> ELSE <<>>)
             \o RangeCalls(ctx, reordered, i + 1, endIndex)

KitOutcome(ctx, pf, activeId, over) ==
    LET ti == FindIndex(ctx, activeId)
        oi == IF over.kind = "task" THEN FindIndex(ctx, over.id) ELSE 0
        col == TasksByStatus(FilteredTasks(ctx, pf)).grouped
    IN  IF over.kind = "null" THEN "noOver"
        ELSE IF ti = 0 THEN "notFound"
        ELSE IF oi # 0
        THEN IF ctx[oi].status # ctx[ti].status THEN "droppedOnOtherColumnTask"
             ELSE LET oldIndex == FindIndex(col[ctx[ti].status], activeId)
                      newIndex == FindIndex(col[ctx[ti].status], over.id)
                  IN  IF oldIndex # newIndex /\ oldIndex # 0 /\ newIndex # 0
                      THEN "reordered" ELSE "samePosition"
        ELSE IF NewStatusOf(over) # "" /\ NewStatusOf(over) \in ColumnIds
                /\ NewStatusOf(over) # ctx[ti].status THEN "droppedOnColumn"
        ELSE "noValidColumnDrop"

\* the updateTaskStatus / updateTask calls handleDragEnd issues, in order
KitCalls(ctx, pf, activeId, over) ==
    LET outcome == KitOutcome(ctx, pf, activeId, over)
        task == ctx[FindIndex(ctx, activeId)]
        col == TasksByStatus(FilteredTasks(ctx, pf)).grouped
    IN  CASE outcome = "droppedOnOtherColumnTask" ->
               LET overTask == ctx[FindIndex(ctx, over.id)]
                   overIndex == FindIndex(col[overTask.status], overTask.id) - 1
                   newOrder == IF overTask.order = Absent THEN overIndex ELSE overTask.order
               IN  <<Call("updateTaskStatus", activeId, [status |-> overTask.status]),
                     Call("updateTask", activeId, [order |-> newOrder])>>
          [] outcome = "reordered" ->
               LET ids == Ids(col[task.status])
                   oldIndex == FindIndex(col[task.status], activeId) - 1
                   newIndex == FindIndex(col[task.status], over.id) - 1
                   startIndex == IF oldIndex < newIndex THEN oldIndex ELSE newIndex
                   endIndex == IF oldIndex < newIndex THEN newIndex ELSE oldIndex
               IN  RangeCalls(ctx, ArrayMove(ids, oldIndex, newIndex), startIndex, endIndex)
          [] outcome = "droppedOnColumn" ->
               <<Call("updateTaskStatus", activeId, [status |-> NewStatusOf(over)]),
                 Call("updateTask", activeId, [order |-> MaxOrder(col[NewStatusOf(over)])])>>
          [] OTHER -> <<>>

-----------------------------------------------------------------------------
(* supabaseStorage: the user's row, and the profile actions of AppContext.
   A profile is modelled by its id and name; an AppData by its profiles and
   its currentProfileId. *)

MaxProfileOps == 3  \* profile-level operations run (SpecProfiles)

\* null: no AppData, no row
Null == [null |-> TRUE]

\* uuidv4(): the n-th id handed out
ProfileIdOf(n) == <<"P1", "P2", "P3", "P4", "P5", "P6", "P7", "P8">>[n]

Profile(id, name) == [id |-> id, name |-> name]

AppDataOf(profiles, currentProfileId) ==
    [profiles |-> profiles, currentProfileId |-> currentProfileId]

ProfileIds(d) == {d.profiles[i].id : i \in DOMAIN d.profiles}

\* createDefaultProfile(): a new profile under a new id
CreateDefaultProfile(id) == Profile(id, "Default")

\* loadData: the row's AppData; null when there is no row or the query failed
LoadData(row, loadOk) == IF loadOk THEN row ELSE Null

\* saveData: the row after the upsert, which replaces it unless it failed
SaveData(row, blob, saveOk) == IF saveOk THEN blob ELSE row

\* initializeData: what it returns (ret) and the row it leaves
InitializeData(row, loadOk, saveOk, newId) ==
    LET existingData == LoadData(row, loadOk)
    IN  IF existingData # Null /\ Len(existingData.profiles) > 0
        THEN IF existingData.currentProfileId \notin ProfileIds(existingData)
             THEN LET fixed == [existingData EXCEPT
                                  !.currentProfileId = existingData.profiles[1].id]
                  IN  [ret |-> fixed, row |-> SaveData(row, fixed, saveOk)]
             ELSE [ret |-> existingData, row |-> row]
        ELSE LET created == AppDataOf(<<CreateDefaultProfile(newId)>>, newId)
             IN  [ret |-> created, row |-> SaveData(row, created, saveOk)]

\* resetData: the delete request, then initializeData
ResetData(row, deleteOk, loadOk, saveOk, newId) ==
    InitializeData(IF deleteOk THEN Null ELSE row, loadOk, saveOk, newId)

\* setCurrentProfileId: the row it leaves
SetCurrentProfileId(row, profileId, loadOk, saveOk) ==
    LET currentData == LoadData(row, loadOk)
    IN  IF currentData = Null THEN row
        ELSE SaveData(row, [currentData EXCEPT !.currentProfileId = profileId], saveOk)

\* the AppData each profile action hands to persistData
SwitchProfileData(d, profileId) == [d EXCEPT !.currentProfileId = profileId]

CreateProfileData(d, id, name) ==
    [d EXCEPT !.profiles = Append(@, Profile(id, name))]

RenameProfileData(d, profileId, name) ==
    [d EXCEPT !.profiles =
        [i \in DOMAIN @ |-> IF @[i].id = profileId THEN [@[i] EXCEPT !.name = name] ELSE @[i]]]

\* a deleteProfile that leaves currentProfileId as it is
DeleteProfileData_KeepsCurrent(d, profileId) ==
    [d EXCEPT !.profiles = SelectSeq(@, LAMBDA q : q.id # profileId)]

DeleteProfileData(d, profileId) ==
    LET newProfiles == SelectSeq(d.profiles, LAMBDA q : q.id # profileId)
        newCurrentId == IF d.currentProfileId = profileId
                        THEN newProfiles[1].id ELSE d.currentProfileId
    IN  AppDataOf(newProfiles, newCurrentId)

\* the profile-level data the task-level specifications run on
OneProfileData == AppDataOf(<<Profile("P1", "a")>>, "P1")

-----------------------------------------------------------------------------
(* The state after the provider has loaded the user's data and the board has
   rendered for the first time *)

LoadedStatuses == {"todo", "done", UnknownStatus}

LoadedOrders == {Absent} \cup (0..MaxInitOrder)

\* the first task belongs to no project, the later ones to project p1
LoadedProject(i) == IF i = 1 THEN NoProject ELSE "p1"

\* no signup form is mounted: a user is signed in
NoSignupForm == [mounted |-> FALSE]

\* a project, reduced to its id and name
Project(id, name) == [id |-> id, name |-> name]

\* the projects of the profile whose tasks the board shows
LoadedProjects == <<Project("p1", "a")>>

LoadedTask(i, status, order) ==
    [id |-> IdOf(i), title |-> "x", status |-> status, order |-> order,
     projectId |-> LoadedProject(i), isToday |-> FALSE, createdAt |-> i,
     updatedAt |-> i, completedAt |-> IF status = "done" THEN i ELSE Absent]

\* task lists a stored blob can hold: created one after another (createdAt
\* ascending), any status string (importData checks none), orders absent,
\* equal or with gaps
LoadedTaskLists ==
    UNION {{[i \in 1..n |-> LoadedTask(i, g[i][1], g[i][2])] :
              g \in [1..n -> LoadedStatuses \X LoadedOrders]} : n \in 0..MaxTasks}

\* task lists as createTask leaves them when no caller passes an order
FreshTaskLists ==
    UNION {{[i \in 1..n |-> LoadedTask(i, g[i], Absent)] :
              g \in [1..n -> {"todo", "done"}]} : n \in 0..MaxTasks}

NoInput == [none |-> TRUE]

NoUndo == [input |-> NoInput, preLocal |-> <<>>]

\* History of one handler run: what it was given, the state it started from,
\* the calls it made and, for a move that directly follows a move, that
\* earlier move.
Entry(op, outcome, input, calls) ==
    [op |-> op, outcome |-> outcome, input |-> input, calls |-> calls,
     preTasks |-> tasks, preLocal |-> localTasks,
     preInflight |-> inflight, preStore |-> store,
     undo |-> IF op = "handleDragEnd" /\ outcome = "moved"
                 /\ last.op = "handleDragEnd" /\ last.outcome = "moved"
              THEN [input |-> last.input, preLocal |-> last.preLocal]
              ELSE NoUndo]

NoEntry ==
    [op |-> "none", outcome |-> "", input |-> NoInput, calls |-> <<>>,
     preTasks |-> <<>>, preLocal |-> <<>>,
     preInflight |-> {}, preStore |-> <<>>, undo |-> NoUndo]

Loaded(list, ops) ==
    /\ tasks = list
    /\ localTasks = IF variant = "optimistic" THEN list ELSE <<>>
    /\ lastTaskCount = IF variant = "optimistic" THEN Len(list) ELSE 0
    /\ projectFilter = "all"
    /\ store = list
    /\ inflight = {}
    /\ appData = OneProfileData
    /\ userRow = OneProfileData
    /\ awaiting = {}
    /\ projects = LoadedProjects
    /\ signup = NoSignupForm
    /\ clock = MaxTasks
    /\ opsLeft = ops
    /\ last = NoEntry

Init ==
    /\ variant \in {"optimistic", "library"}
    /\ \E list \in LoadedTaskLists : Loaded(list, MaxOps)

\* the optimistic board over freshly created tasks
InitFresh ==
    /\ variant = "optimistic"
    /\ \E list \in FreshTaskLists : Loaded(list, MaxMoves)

\* the task list the mounted board renders from
BoardTasks == IF variant = "optimistic" THEN localTasks ELSE tasks

Displayed == TasksByStatus(FilteredTasks(BoardTasks, projectFilter))

\* a render that threw unmounts the application: no handler can run any more
Crashed == Displayed.threw

\* an event can be handled: the board rendered, and the bound on the events
\* explored (handlers, filter changes, mounts) is not used up
CanHandle == opsLeft > 0 /\ ~Crashed

\* localTasks and lastTaskCountRef after the sync effect has run
SyncedLocal(ctx, local) ==
    IF variant # "optimistic" THEN <<>>
    ELSE IF SyncNeeded(ctx, local, lastTaskCount) THEN ctx ELSE local

SyncedCount(ctx, local) ==
    IF variant # "optimistic" THEN 0
    ELSE IF SyncNeeded(ctx, local, lastTaskCount) THEN Len(ctx) ELSE lastTaskCount

\* an event handler that issued `calls` against the rendered tasks
Issue(calls, newLocal, entry) ==
    LET now == clock + 1
        newCtx == Committed(tasks, calls, now)
    IN  /\ tasks' = newCtx
        /\ localTasks' = SyncedLocal(newCtx, newLocal)
        /\ lastTaskCount' = SyncedCount(newCtx, newLocal)
        /\ inflight' = inflight \cup Blobs(tasks, calls, now)
        /\ clock' = now
        /\ opsLeft' = opsLeft - 1
        /\ last' = entry
        /\ UNCHANGED <<variant, projectFilter, store>>
        /\ UNCHANGED profileVars
        /\ UNCHANGED projectVars
        /\ UNCHANGED signupVars

-----------------------------------------------------------------------------
(* Event handlers of the board *)

DropResult(id, c, i, hasDestination, d, j) ==
    [draggableId |-> id, hasDestination |-> hasDestination,
     source |-> [droppableId |-> c, index |-> i],
     destination |-> [droppableId |-> d, index |-> j]]

\* the drops @hello-pangea/dnd can report for the rendered columns: the card's
\* own column and index as source; no destination, or a column with an index
\* into it (its end included for another column), or a droppable that is no
\* column
LibraryDrops ==
    LET col == Displayed.grouped
    IN  UNION {UNION {
            {DropResult(col[c][k].id, c, k - 1, FALSE, c, 0)}
            \cup {DropResult(col[c][k].id, c, k - 1, TRUE, UnknownStatus, 0)}
            \cup {DropResult(col[c][k].id, UnknownStatus, 0, TRUE, c, 0)}
            \cup UNION {{DropResult(col[c][k].id, c, k - 1, TRUE, d, j) :
                           j \in 0..(Len(col[d]) - (IF d = c THEN 1 ELSE 0))} : d \in ColumnIds}
            : k \in DOMAIN col[c]} : c \in ColumnIds}

\* a drop whose card is no longer in the task list
StaleDrops == {DropResult(MissingId, "todo", 0, TRUE, "done", 0)}

\* drops whose destination index lies past the end of the destination column;
\* DraggableLocation.index is a number the handler does not range-check
OutOfRangeDrops ==
    LET col == Displayed.grouped
    IN  UNION {UNION {
            {DropResult(col[c][k].id, c, k - 1, TRUE, d, Len(col[d]) + 1) : d \in ColumnIds}
            : k \in DOMAIN col[c]} : c \in ColumnIds}

\* BoardView.handleDragEnd, optimistic variant
HandleDragEnd(result) ==
    /\ variant = "optimistic"
    /\ CanHandle
    /\ LET outcome == DragOutcome(localTasks, result)
           updatedTasks == ComputeUpdatedTasks(localTasks, result, clock + 1)
           calls == IF outcome = "moved" THEN PersistCalls(tasks, updatedTasks) ELSE <<>>
       IN  Issue(calls, updatedTasks, Entry("handleDragEnd", outcome, result, calls))

KitOver(kind, id, dataType, dataStatus, prefix, rest) ==
    [kind |-> kind, id |-> id, dataType |-> dataType, dataStatus |-> dataStatus,
     prefix |-> prefix, rest |-> rest]

\* what a drag of the library-based board can end over: nothing, a card, a
\* column droppable (with its data), or a droppable whose data is missing
KitOvers ==
    {KitOver("null", "", "", "", "", "")}
    \cup {KitOver("task", id, "sortable", "", "", "") :
            id \in IdSet(FilteredTasks(tasks, projectFilter)) \cup {MissingId}}
    \cup {KitOver("droppable", "", "column", c, "column-content-", c) : c \in ColumnIds}
    \cup {KitOver("droppable", "", "column", "done", "column-", "done"),
          KitOver("droppable", "", "", "", "column-", "done"),
          KitOver("droppable", "", "", "", "column-content-", UnknownStatus)}

\* BoardView.handleDragEnd, library-based variant
KitHandleDragEnd(activeId, over) ==
    /\ variant = "library"
    /\ CanHandle
    /\ LET calls == KitCalls(tasks, projectFilter, activeId, over)
           outcome == KitOutcome(tasks, projectFilter, activeId, over)
       IN  Issue(calls, <<>>, Entry("kitHandleDragEnd", outcome, [activeId |-> activeId, over |-> over], calls))

\* the project filter's Select
SetProjectFilter(pf) ==
    /\ CanHandle
    /\ pf # projectFilter
    /\ projectFilter' = pf
    /\ UNCHANGED <<variant, tasks, localTasks, lastTaskCount, store, inflight, clock, opsLeft, last>>
    /\ UNCHANGED profileVars
    /\ UNCHANGED projectVars
    /\ UNCHANGED signupVars

\* leaving the board and coming back: BoardView mounts again
BoardMount ==
    /\ variant = "optimistic"
    /\ CanHandle
    /\ localTasks # tasks \/ projectFilter # "all"
    /\ localTasks' = tasks
    /\ lastTaskCount' = Len(tasks)
    /\ projectFilter' = "all"
    /\ last' = [NoEntry EXCEPT !.op = "mount"]
    /\ UNCHANGED <<variant, tasks, store, inflight, clock, opsLeft>>
    /\ UNCHANGED profileVars
    /\ UNCHANGED projectVars
    /\ UNCHANGED signupVars

-----------------------------------------------------------------------------
(* Event handlers outside the board that call the AppContext task actions *)

\* what a caller hands to createTask; `order` is an optional field of Task
CreateInputs ==
    {[title |-> "x", status |-> s, projectId |-> NoProject, isToday |-> FALSE] : s \in {"todo", "done"}}
    \cup {[title |-> "x", status |-> "todo", projectId |-> NoProject, isToday |-> FALSE, order |-> 0]}

\* createTask(task)
CreateTaskAct(task) ==
    /\ CanHandle
    /\ LET calls == <<Call("createTask", IdOf(clock + 1), task)>>
       IN  Issue(calls, localTasks, Entry("createTask", "", task, calls))

\* deleteTask(id)
DeleteTaskAct(id) ==
    /\ CanHandle
    /\ LET calls == <<Call("deleteTask", id, NoInput)>>
       IN  Issue(calls, localTasks, Entry("deleteTask", "", [id |-> id], calls))

\* updateTaskStatus(id, status) = updateTask(id, { status })
UpdateTaskStatusAct(id, status) ==
    /\ CanHandle
    /\ LET calls == <<Call("updateTaskStatus", id, [status |-> status])>>
       IN  Issue(calls, localTasks, Entry("updateTaskStatus", "", [id |-> id, status |-> status], calls))

\* toggleTaskToday(id)
ToggleTaskToday(id) ==
    /\ CanHandle
    /\ LET ti == FindIndex(tasks, id)
           calls == IF ti = 0 THEN <<>>
                    ELSE <<Call("updateTask", id, [isToday |-> ~tasks[ti].isToday])>>
       IN  Issue(calls, localTasks, Entry("toggleTaskToday", "", [id |-> id], calls))

\* TaskEditDialog.handleSave with the dialog's title and status; "" is a
\* title that trims to nothing
EditSave(id, title, status) ==
    /\ CanHandle
    /\ FindIndex(tasks, id) # 0
    /\ LET calls == IF title = "" THEN <<>>
                    ELSE <<Call("updateTask", id, [title |-> title, status |-> status])>>
       IN  Issue(calls, localTasks, Entry("editSave", "", [id |-> id, title |-> title, status |-> status], calls))

\* updates by which a caller of updateTask supplies a completedAt of its own
CompletedAtUpdates == {[completedAt |-> 0], [status |-> "done", completedAt |-> 0]}

\* updateTask(id, updates)
UpdateTaskAct(id, updates) ==
    /\ CanHandle
    /\ LET calls == <<Call("updateTask", id, updates)>>
       IN  Issue(calls, localTasks, Entry("updateTask", "", [id |-> id, updates |-> updates], calls))

\* saveData: one of the upserts in flight reaches the database and replaces
\* the user's row, whatever order the upserts were sent in
SaveCompletes(blob) ==
    /\ blob \in inflight
    /\ inflight' = inflight \ {blob}
    /\ store' = blob
    /\ last' = [NoEntry EXCEPT !.op = "saveCompleted"]
    /\ UNCHANGED <<variant, tasks, localTasks, lastTaskCount, projectFilter, clock, opsLeft>>
    /\ UNCHANGED profileVars
    /\ UNCHANGED projectVars
    /\ UNCHANGED signupVars

NextContext ==
    \/ \E task \in CreateInputs : CreateTaskAct(task)
    \/ \E id \in IdSet(tasks) : DeleteTaskAct(id)
    \/ \E id \in IdSet(tasks), status \in ColumnIds : UpdateTaskStatusAct(id, status)
    \/ \E id \in IdSet(tasks) \cup {MissingId} : ToggleTaskToday(id)
    \/ \E id \in IdSet(tasks), title \in {"", "y"}, status \in {"todo", "done"} : EditSave(id, title, status)
    \/ \E id \in IdSet(tasks), updates \in CompletedAtUpdates : UpdateTaskAct(id, updates)

NextOptimistic ==
    \/ \E result \in LibraryDrops \cup StaleDrops \cup OutOfRangeDrops : HandleDragEnd(result)
    \/ \E pf \in {"all"} \cup ProjectIds : SetProjectFilter(pf)
    \/ BoardMount

Next ==
    \/ NextOptimistic
    \/ \E id \in IdSet(FilteredTasks(tasks, projectFilter)) \cup {MissingId} : \E over \in KitOvers : KitHandleDragEnd(id, over)
    \/ NextContext
    \/ \E blob \in inflight : SaveCompletes(blob)

Spec == Init /\ [][Next]_vars

SpecTwoMoves == InitFresh /\ [][NextOptimistic]_vars

\* the task actions alone, each followed at any later time by its upsert
NextTaskActions ==
    \/ NextContext
    \/ \E blob \in inflight : SaveCompletes(blob)

SpecTaskActions == InitFresh /\ [][NextTaskActions]_vars

-----------------------------------------------------------------------------
(* The provider's load, the reset and the profile actions.  A request to the
   store either succeeds or reports an error.  switchProfile and deleteProfile
   await setCurrentProfileId before they call persistData: between the two
   the action is suspended and other events run. *)

ProfileNames == {"a", "b"}

\* rows a user can have when the provider mounts: none, or AppData saved
\* earlier or imported (importData only requires profiles to be an array)
StoredProfileLists ==
    {<<>>, <<Profile("P1", "a")>>,
     <<Profile("P1", "a"), Profile("P2", "b")>>,
     <<Profile("P2", "b"), Profile("P1", "a")>>}

StoredRows ==
    {Null} \cup {AppDataOf(ps, c) : ps \in StoredProfileLists, c \in {"", "P1", "P2"}}

ProfileEntry(op, input, ret) ==
    [op |-> op, outcome |-> "", input |-> input, calls |-> <<>>,
     preData |-> appData, preRow |-> userRow, preAwaiting |-> awaiting,
     ret |-> ret]

\* an upsert of persistData on its way to the store
Upsert(blob) == [kind |-> "upsert", blob |-> blob]

\* an action suspended at `await setCurrentProfileId`
Suspended(op, profileId, newData) ==
    [kind |-> "suspended", op |-> op, profileId |-> profileId, newData |-> newData]

CanRun == opsLeft > 0

\* the load effect: initializeData(user.id).then(setData)
LoadUserData(loadOk, saveOk) ==
    /\ CanRun
    /\ appData = Null
    /\ LET r == InitializeData(userRow, loadOk, saveOk, ProfileIdOf(clock + 1))
       IN  /\ appData' = r.ret
           /\ userRow' = r.row
           /\ last' = ProfileEntry("initializeData",
                                   [loadOk |-> loadOk, saveOk |-> saveOk], r.ret)
    /\ clock' = clock + 1
    /\ opsLeft' = opsLeft - 1
    /\ UNCHANGED awaiting
    /\ UNCHANGED taskVars
    /\ UNCHANGED projectVars
    /\ UNCHANGED signupVars

ResetAllData(deleteOk, loadOk, saveOk) ==
    /\ CanRun
    /\ appData # Null
    /\ LET r == ResetData(userRow, deleteOk, loadOk, saveOk, ProfileIdOf(clock + 1))
       IN  /\ appData' = r.ret
           /\ userRow' = r.row
           /\ last' = ProfileEntry("resetData",
                                   [deleteOk |-> deleteOk, loadOk |-> loadOk,
                                    saveOk |-> saveOk], r.ret)
    /\ clock' = clock + 1
    /\ opsLeft' = opsLeft - 1
    /\ UNCHANGED awaiting
    /\ UNCHANGED taskVars
    /\ UNCHANGED projectVars
    /\ UNCHANGED signupVars

SwitchProfile(profileId) ==
    /\ CanRun
    /\ appData # Null
    /\ awaiting' = IF profileId \in ProfileIds(appData)
                   THEN awaiting \cup {Suspended("switchProfile", profileId,
                                                 SwitchProfileData(appData, profileId))}
                   ELSE awaiting
    /\ last' = ProfileEntry("switchProfile", [profileId |-> profileId], Null)
    /\ opsLeft' = opsLeft - 1
    /\ UNCHANGED <<appData, userRow, clock>>
    /\ UNCHANGED taskVars
    /\ UNCHANGED projectVars
    /\ UNCHANGED signupVars

CreateProfile(name) ==
    /\ CanRun
    /\ appData # Null
    /\ LET newData == CreateProfileData(appData, ProfileIdOf(clock + 1), name)
       IN  /\ appData' = newData
           /\ awaiting' = awaiting \cup {Upsert(newData)}
    /\ last' = ProfileEntry("createProfile", [name |-> name], Null)
    /\ clock' = clock + 1
    /\ opsLeft' = opsLeft - 1
    /\ UNCHANGED userRow
    /\ UNCHANGED taskVars
    /\ UNCHANGED projectVars
    /\ UNCHANGED signupVars

RenameProfile(profileId, name) ==
    /\ CanRun
    /\ appData # Null
    /\ LET newData == RenameProfileData(appData, profileId, name)
       IN  /\ appData' = newData
           /\ awaiting' = awaiting \cup {Upsert(newData)}
    /\ last' = ProfileEntry("renameProfile", [profileId |-> profileId, name |-> name], Null)
    /\ opsLeft' = opsLeft - 1
    /\ UNCHANGED <<userRow, clock>>
    /\ UNCHANGED taskVars
    /\ UNCHANGED projectVars
    /\ UNCHANGED signupVars

DeleteProfile(profileId) ==
    /\ CanRun
    /\ appData # Null
    /\ awaiting' = IF Len(appData.profiles) <= 1
                   THEN awaiting
                   ELSE awaiting \cup {Suspended("deleteProfile", profileId,
                                                 DeleteProfileData(appData, profileId))}
    /\ last' = ProfileEntry("deleteProfile", [profileId |-> profileId], Null)
    /\ opsLeft' = opsLeft - 1
    /\ UNCHANGED <<appData, userRow, clock>>
    /\ UNCHANGED taskVars
    /\ UNCHANGED projectVars
    /\ UNCHANGED signupVars

\* setCurrentProfileId has answered: the action goes on to persistData
Resume(s, loadOk, saveOk) ==
    /\ s \in awaiting
    /\ s.kind = "suspended"
    /\ userRow' = SetCurrentProfileId(userRow, s.profileId, loadOk, saveOk)
    /\ appData' = s.newData
    /\ awaiting' = (awaiting \ {s}) \cup {Upsert(s.newData)}
    /\ last' = ProfileEntry(IF s.op = "deleteProfile" THEN "deleteProfileResumed"
                                                      ELSE "switchProfileResumed",
                            [profileId |-> s.profileId], Null)
    /\ UNCHANGED <<clock, opsLeft>>
    /\ UNCHANGED taskVars
    /\ UNCHANGED projectVars
    /\ UNCHANGED signupVars

\* an upsert of persistData reaches the store, or fails
UpsertCompletes(s, saveOk) ==
    /\ s \in awaiting
    /\ s.kind = "upsert"
    /\ userRow' = SaveData(userRow, s.blob, saveOk)
    /\ awaiting' = awaiting \ {s}
    /\ last' = ProfileEntry("upsertCompleted", [saveOk |-> saveOk], Null)
    /\ UNCHANGED <<appData, clock, opsLeft>>
    /\ UNCHANGED taskVars
    /\ UNCHANGED projectVars
    /\ UNCHANGED signupVars

InitProfiles ==
    /\ variant = "optimistic"
    /\ tasks = <<>>
    /\ localTasks = <<>>
    /\ lastTaskCount = 0
    /\ projectFilter = NoProject
    /\ store = <<>>
    /\ inflight = {}
    /\ appData = Null
    /\ userRow \in StoredRows
    /\ awaiting = {}
    /\ projects = <<>>
    /\ signup = NoSignupForm
    /\ clock = 2
    /\ opsLeft = MaxProfileOps
    /\ last = NoEntry

NextProfiles ==
    \/ \E loadOk \in BOOLEAN, saveOk \in BOOLEAN : LoadUserData(loadOk, saveOk)
    \/ \E deleteOk \in BOOLEAN, loadOk \in BOOLEAN, saveOk \in BOOLEAN :
            ResetAllData(deleteOk, loadOk, saveOk)
    \/ \E profileId \in {ProfileIdOf(n) : n \in 1..3} \cup {MissingId} : SwitchProfile(profileId)
    \/ \E name \in ProfileNames : CreateProfile(name)
    \/ \E profileId \in {ProfileIdOf(n) : n \in 1..3}, name \in ProfileNames :
            RenameProfile(profileId, name)
    \/ \E profileId \in {ProfileIdOf(n) : n \in 1..3} : DeleteProfile(profileId)
    \/ \E s \in awaiting, loadOk \in BOOLEAN, saveOk \in BOOLEAN : Resume(s, loadOk, saveOk)
    \/ \E s \in awaiting, saveOk \in BOOLEAN : UpsertCompletes(s, saveOk)

SpecProfiles == InitProfiles /\ [][NextProfiles]_vars

-----------------------------------------------------------------------------
(* The project actions of AppContext.  Here the blob that persistData sends
   and the store keeps is the pair of the current profile's projects and
   tasks, the two collections deleteProject writes. *)

MaxProjectOps == 2  \* project actions run (SpecProjects)

\* uuidv4(): the n-th project id handed out
NewProjectId(n) == <<"p1", "p2", "p3", "p4", "p5", "p6", "p7", "p8">>[n]

ProfileOf(ps, ts) == [projects |-> ps, tasks |-> ts]

\* createProject: projects: [...currentProfile.projects, newProject]
CreateProjectData(pr, id, name) ==
    [pr EXCEPT !.projects = Append(@, Project(id, name))]

\* a deleteProject that leaves the tasks alone
DeleteProjectData_KeepsTasks(pr, id) ==
    [pr EXCEPT !.projects = SelectSeq(@, LAMBDA q : q.id # id)]

\* deleteProject: the project and the tasks whose projectId is id filtered out
DeleteProjectData(pr, id) ==
    ProfileOf(SelectSeq(pr.projects, LAMBDA q : q.id # id),
              SelectSeq(pr.tasks, LAMBDA t : t.projectId # id))

ProjectEntry(op, input) ==
    [op |-> op, outcome |-> "", input |-> input, calls |-> <<>>,
     preTasks |-> tasks, preProjects |-> projects]

\* updateCurrentProfile(updates): setData and the upsert of the whole blob
PersistProfile(pr, entry) ==
    /\ projects' = pr.projects
    /\ tasks' = pr.tasks
    /\ inflight' = inflight \cup {pr}
    /\ clock' = clock + 1
    /\ opsLeft' = opsLeft - 1
    /\ last' = entry
    /\ UNCHANGED <<variant, localTasks, lastTaskCount, projectFilter, store>>
    /\ UNCHANGED profileVars
    /\ UNCHANGED signupVars

CreateProject(name) ==
    /\ CanRun
    /\ PersistProfile(CreateProjectData(ProfileOf(projects, tasks), NewProjectId(clock + 1), name),
                      ProjectEntry("createProject", [name |-> name]))

DeleteProject(id) ==
    /\ CanRun
    /\ PersistProfile(DeleteProjectData(ProfileOf(projects, tasks), id),
                      ProjectEntry("deleteProject", [id |-> id]))

\* projects and tasks a stored profile can hold: a task belongs to no
\* project, to a project of the profile, or names a project that is gone
StoredProjectLists ==
    {<<>>, <<Project("p1", "a")>>,
     <<Project("p1", "a"), Project("p2", "b")>>,
     <<Project("p2", "b"), Project("p1", "a")>>}

ProjectTaskLists ==
    UNION {{[i \in 1..n |-> [LoadedTask(i, "todo", Absent) EXCEPT !.projectId = g[i]]] :
              g \in [1..n -> {NoProject, "p1", "p2"}]} : n \in 0..MaxTasks}

InitProjects ==
    /\ variant = "library"
    /\ tasks \in ProjectTaskLists
    /\ projects \in StoredProjectLists
    /\ signup = NoSignupForm
    /\ localTasks = <<>>
    /\ lastTaskCount = 0
    /\ projectFilter = "all"
    /\ store = ProfileOf(projects, tasks)
    /\ inflight = {}
    /\ appData = OneProfileData
    /\ userRow = OneProfileData
    /\ awaiting = {}
    /\ clock = 2
    /\ opsLeft = MaxProjectOps
    /\ last = NoEntry

NextProjects ==
    \/ \E name \in ProfileNames : CreateProject(name)
    \/ \E id \in {"p1", "p2", MissingId} : DeleteProject(id)
    \/ \E blob \in inflight : SaveCompletes(blob)

SpecProjects == InitProjects /\ [][NextProjects]_vars

-----------------------------------------------------------------------------
(* SignupForm.  Its handlers are closures over the isLoading of the render
   they were created in (`rendered`).  React commits the state updates made
   inside a click or key handler before the next event is dispatched; an
   update made after an await is rendered in a later step. *)

MaxSignupEvents == 4  \* clicks, Enter keys and submit events (SpecSignup)

\* useAuth().loading: AppContent mounts the form only once it is false, and
\* AuthProvider never sets it back to true
AuthLoading == FALSE

\* useState('') / useState(false) of a mounted form, nothing pending
MountedForm ==
    [mounted |-> TRUE, isLoading |-> FALSE, rendered |-> FALSE,
     email |-> FALSE, password |-> FALSE,
     signUp |-> 0, waiting |-> 0, checking |-> 0, closing |-> 0, google |-> 0]

\* a handleSubmit that does not look at isLoading
HandleSubmit_NoGuard(f) ==
    [f EXCEPT !.isLoading = TRUE, !.rendered = TRUE, !.signUp = @ + 1]

\* handleSubmit up to `await signUp(...)`: ignored while isLoading || loading,
\* otherwise setIsLoading(true) and one signUp request sent
HandleSubmit(f) ==
    IF f.rendered \/ AuthLoading THEN f
    ELSE [f EXCEPT !.isLoading = TRUE, !.rendered = TRUE, !.signUp = @ + 1]

\* the submit button's onClick
ButtonOnClick(f) ==
    IF ~f.rendered /\ ~AuthLoading /\ f.email /\ f.password THEN HandleSubmit(f) ELSE f

SignupEntry(op) ==
    [op |-> op, outcome |-> "", input |-> NoInput, calls |-> <<>>, preSignup |-> signup]

SignupStep(op, f) ==
    /\ signup' = f
    /\ last' = SignupEntry(op)
    /\ UNCHANGED <<clock, opsLeft>>
    /\ UNCHANGED taskVars
    /\ UNCHANGED profileVars
    /\ UNCHANGED projectVars

SignupEvent(op, f) ==
    /\ signup.mounted
    /\ opsLeft > 0
    /\ signup' = f
    /\ last' = SignupEntry(op)
    /\ opsLeft' = opsLeft - 1
    /\ UNCHANGED clock
    /\ UNCHANGED taskVars
    /\ UNCHANGED profileVars
    /\ UNCHANGED projectVars

\* the inputs' onChange; the inputs are disabled while isLoading || loading
TypeEmail(filled) ==
    /\ signup.mounted /\ ~signup.rendered /\ ~AuthLoading
    /\ signup.email # filled
    /\ SignupStep("typeEmail", [signup EXCEPT !.email = filled])

TypePassword(filled) ==
    /\ signup.mounted /\ ~signup.rendered /\ ~AuthLoading
    /\ signup.password # filled
    /\ SignupStep("typePassword", [signup EXCEPT !.password = filled])

\* a click on the submit button, which is disabled while isLoading || loading
ButtonClick ==
    /\ signup.mounted /\ ~signup.rendered /\ ~AuthLoading
    /\ SignupEvent("buttonClick", ButtonOnClick(signup))

\* Enter inside the form: onKeyDown calls handleSubmit
EnterKey ==
    /\ signup.mounted
    /\ SignupEvent("enterKey", HandleSubmit(signup))

\* a submit event on the form: onSubmit={handleSubmit}
FormSubmit ==
    /\ signup.mounted
    /\ SignupEvent("formSubmit", HandleSubmit(signup))

\* "Continue with Google", disabled while isLoading || loading
GoogleClick ==
    /\ signup.mounted /\ ~signup.rendered /\ ~AuthLoading
    /\ SignupEvent("googleClick",
                   [signup EXCEPT !.isLoading = TRUE, !.rendered = TRUE, !.google = @ + 1])

\* signInWithGoogle has answered: an error, or the redirect to the provider
GoogleReturns(error) ==
    /\ signup.mounted /\ signup.google > 0
    /\ SignupStep("googleReturned",
                  IF error THEN [signup EXCEPT !.google = @ - 1, !.isLoading = FALSE]
                  ELSE [signup EXCEPT !.google = @ - 1, !.mounted = FALSE])

\* signUp has answered: an error, a user with a session (AuthProvider sets
\* the user and AppContent replaces the form), or a user to be confirmed
SignUpReturns(outcome) ==
    /\ signup # NoSignupForm
    /\ signup.signUp > 0
    /\ SignupStep("signUpReturned",
                  CASE outcome = "error" ->
                         [signup EXCEPT !.signUp = @ - 1, !.isLoading = FALSE]
                    [] outcome = "session" ->
                         [signup EXCEPT !.signUp = @ - 1, !.waiting = @ + 1, !.mounted = FALSE]
                    [] OTHER ->
                         [signup EXCEPT !.signUp = @ - 1, !.waiting = @ + 1])

\* the 500 ms wait is over: getSession is asked
WaitOver ==
    /\ signup # NoSignupForm
    /\ signup.waiting > 0
    /\ SignupStep("waitOver", [signup EXCEPT !.waiting = @ - 1, !.checking = @ + 1])

\* getSession has answered: a session (setIsLoading(false) in a second), no
\* session (the form is cleared), or it threw
GetSessionReturns(outcome) ==
    /\ signup # NoSignupForm
    /\ signup.checking > 0
    /\ SignupStep("getSessionReturned",
                  CASE outcome = "session" ->
                         [signup EXCEPT !.checking = @ - 1, !.closing = @ + 1]
                    [] outcome = "noSession" ->
                         [signup EXCEPT !.checking = @ - 1, !.email = FALSE,
                                        !.password = FALSE, !.isLoading = FALSE]
                    [] OTHER ->
                         [signup EXCEPT !.checking = @ - 1, !.isLoading = FALSE])

\* setTimeout(() => setIsLoading(false), 1000)
CloseTimer ==
    /\ signup # NoSignupForm
    /\ signup.closing > 0
    /\ SignupStep("closeTimer", [signup EXCEPT !.closing = @ - 1, !.isLoading = FALSE])

\* React renders a state update made after an await
Render ==
    /\ signup # NoSignupForm
    /\ signup.rendered # signup.isLoading
    /\ SignupStep("render", [signup EXCEPT !.rendered = signup.isLoading])

InitSignup ==
    /\ variant = "library"
    /\ tasks = <<>>
    /\ localTasks = <<>>
    /\ lastTaskCount = 0
    /\ projectFilter = "all"
    /\ store = <<>>
    /\ inflight = {}
    /\ appData = Null
    /\ userRow = Null
    /\ awaiting = {}
    /\ projects = <<>>
    /\ signup = MountedForm
    /\ clock = 0
    /\ opsLeft = MaxSignupEvents
    /\ last = NoEntry

NextSignup ==
    \/ \E filled \in BOOLEAN : TypeEmail(filled)
    \/ \E filled \in BOOLEAN : TypePassword(filled)
    \/ ButtonClick
    \/ EnterKey
    \/ FormSubmit
    \/ GoogleClick
    \/ \E error \in BOOLEAN : GoogleReturns(error)
    \/ \E outcome \in {"error", "session", "confirm"} : SignUpReturns(outcome)
    \/ WaitOver
    \/ \E outcome \in {"session", "noSession", "throws"} : GetSessionReturns(outcome)
    \/ CloseTimer
    \/ Render

SpecSignup == InitSignup /\ [][NextSignup]_vars

-----------------------------------------------------------------------------
(* Columns, as the data model defines them: the tasks sharing one status,
   sorted by (order ascending, createdAt ascending) *)

Column(ts, c) == Ids(SortTasks(SelectSeq(ts, LAMBDA t : t.status = c)))

ColumnOrders(ts, c) ==
    LET col == SortTasks(SelectSeq(ts, LAMBDA t : t.status = c))
    IN  [i \in DOMAIN col |-> col[i].order]

Without(ids, id) == SelectSeq(ids, LAMBDA x : x # id)


\* the last handler was the optimistic board's handleDragEnd, given a drop of
\* task T from its place in its column (source) onto a column (destination)
IsDrop ==
    /\ last.op = "handleDragEnd"
    /\ last.input.hasDestination
    /\ last.input.source.droppableId \in ColumnIds
    /\ last.input.destination.droppableId \in ColumnIds
    /\ FindIndex(last.preLocal, last.input.draggableId) # 0
    /\ last.input.source.index < Len(Column(last.preLocal, last.input.source.droppableId))
    /\ Column(last.preLocal, last.input.source.droppableId)[last.input.source.index + 1] = last.input.draggableId

\* ... within its own column, to another index of the column's sequence
IsSameColumnMove ==
    /\ IsDrop
    /\ last.input.source.droppableId = last.input.destination.droppableId
    /\ last.input.destination.index # last.input.source.index
    /\ last.input.destination.index < Len(Column(last.preLocal, last.input.source.droppableId))

\* ... to an index of another column's sequence (its end included)
IsCrossColumnMove ==
    /\ IsDrop
    /\ last.input.source.droppableId # last.input.destination.droppableId
    /\ last.input.destination.index <= Len(Column(last.preLocal, last.input.destination.droppableId))

C2_CrossColumnMove ==
    IsCrossColumnMove =>
        LET T == last.input.draggableId
            src == last.input.source.droppableId
            dst == last.input.destination.droppableId
            j == last.input.destination.index
        IN  /\ Len(Column(localTasks, dst)) > j
            /\ Column(localTasks, dst)[j + 1] = T
            /\ Without(Column(localTasks, dst), T) = Column(last.preLocal, dst)
            /\ Column(localTasks, src) = Without(Column(last.preLocal, src), T)

\* C3 (as claimed): after a cross-column move the source column has lost
\* exactly the moved task and carries the orders 0..n-2, the destination
\* column has gained exactly the moved task and carries the orders 0..m, and
\* no task is duplicated or dropped.
C3_ContiguousAfterCrossColumnMove ==
    IsCrossColumnMove =>
        LET T == last.input.draggableId
            src == last.input.source.droppableId
            dst == last.input.destination.droppableId
            n == Len(Column(last.preLocal, src))
            m == Len(Column(last.preLocal, dst))
        IN  /\ Ids(localTasks) = Ids(last.preLocal)
            /\ {Column(localTasks, src)[k] : k \in 1..Len(Column(localTasks, src))}
                 = {Column(last.preLocal, src)[k] : k \in 1..n} \ {T}
            /\ {Column(localTasks, dst)[k] : k \in 1..Len(Column(localTasks, dst))}
                 = {Column(last.preLocal, dst)[k] : k \in 1..m} \cup {T}
            /\ ColumnOrders(localTasks, src) = [k \in 1..(n - 1) |-> k - 1]
            /\ ColumnOrders(localTasks, dst) = [k \in 1..(m + 1) |-> k - 1]

\* the last handler was an accepted move of the optimistic board
IsAcceptedMove == IsSameColumnMove \/ IsCrossColumnMove

\* C4 (as claimed): once handleDragEnd has returned for an accepted move and
\* the updateTaskStatus / updateTask calls it issued have run, the task list
\* of AppContext agrees with the board's optimistic local tasks on the status
\* and the order of every task.
C4_ContextAgreesWithMove ==
    IsAcceptedMove =>
        /\ Ids(tasks) = Ids(localTasks)
        /\ \A k \in DOMAIN tasks :
              /\ tasks[k].status = localTasks[k].status
              /\ tasks[k].order = localTasks[k].order

\* nothing was updated and nothing was saved by the last handler
NothingChanged ==
    /\ last.calls = <<>>
    /\ tasks = last.preTasks
    /\ localTasks = last.preLocal
    /\ inflight = last.preInflight
    /\ store = last.preStore

\* the last drop put the card back where it was taken from
IsSamePositionDrop ==
    \/ /\ last.op = "handleDragEnd"
       /\ last.input.hasDestination
       /\ last.input.destination = last.input.source
    \/ /\ last.op = "kitHandleDragEnd"
       /\ last.input.over.kind = "task"
       /\ last.input.over.id = last.input.activeId

\* C5: a drop whose destination (column, index) is the task's current
\* (column, index) produces no updates: the local task list, the AppContext
\* data and the store are unchanged and no save is sent.
C5_NoOpGuard == IsSamePositionDrop => NothingChanged

\* C5 witness: a card of the optimistic board was dropped where it was, in a
\* column whose renumbering would have changed an order.
C5_Witness ==
    /\ IsSamePositionDrop
    /\ last.op = "handleDragEnd"
    /\ FindIndex(localTasks, last.input.draggableId) # 0
    /\ \E k \in 1..Len(Column(localTasks, last.input.source.droppableId)) :
          ColumnOrders(localTasks, last.input.source.droppableId)[k] # k - 1

\* the last drag named a task id that the board's task list does not hold
IsDragOfMissingTask ==
    \/ /\ last.op = "handleDragEnd"
       /\ last.input.draggableId \notin IdSet(last.preLocal)
    \/ /\ last.op = "kitHandleDragEnd"
       /\ last.input.activeId \notin IdSet(last.preTasks)

\* C6: a move of a task id that is not in the task set performs no updates:
\* no task changes in the local list or in AppContext, and nothing is saved.
C6_NotFound == IsDragOfMissingTask => NothingChanged

\* C6 witness: a drop of a missing card onto another column and index, on a
\* board whose columns hold tasks the move would have renumbered.
C6_Witness ==
    /\ IsDragOfMissingTask
    /\ last.op = "handleDragEnd"
    /\ last.input.hasDestination
    /\ last.input.destination # last.input.source
    /\ Len(Column(localTasks, last.input.source.droppableId)) > 0
    /\ Len(Column(localTasks, last.input.destination.droppableId)) > 0

\* the last two handlers moved T from index i of column A to column B and
\* then from column B back to index i of column A
IsRoundTrip ==
    /\ IsCrossColumnMove
    /\ last.undo # NoUndo
    /\ LET first == last.undo.input
           before == last.undo.preLocal
       IN  /\ first.draggableId = last.input.draggableId
           /\ first.source = last.input.destination
           /\ first.destination.droppableId = last.input.source.droppableId
           /\ first.source.index < Len(Column(before, first.source.droppableId))
           /\ Column(before, first.source.droppableId)[first.source.index + 1] = first.draggableId
           /\ first.destination.index <= Len(Column(before, first.destination.droppableId))

\* C7 (as claimed): moving a task from column A index i to column B index j
\* and then back to column A index i restores column A's original sequence of
\* task ids, sorted by (order, createdAt).
C7_RoundTrip ==
    IsRoundTrip =>
        Column(localTasks, last.input.destination.droppableId)
          = Column(last.undo.preLocal, last.input.destination.droppableId)

\* C8 (as claimed): a same-column reorder updates exactly the tasks whose
\* order changes, in the local list and through updateTask; every other task
\* is left untouched, its updatedAt included.
C8_MinimalWrites ==
    IsSameColumnMove =>
        LET changed == {k \in DOMAIN localTasks : localTasks[k].order # last.preLocal[k].order}
        IN  /\ \A k \in DOMAIN localTasks : k \notin changed => localTasks[k] = last.preLocal[k]
            /\ {last.calls[n].id : n \in DOMAIN last.calls} = {localTasks[k].id : k \in changed}
            /\ \A n \in DOMAIN last.calls :
                  /\ last.calls[n].fn = "updateTask"
                  /\ DOMAIN last.calls[n].updates = {"order"}

\* the last handler was one of the task actions that are no board move
IsTaskEdit == last.op \in {"updateTaskStatus", "toggleTaskToday", "editSave"}

\* every task of the rendered list is still there with the order it had
OrdersKept ==
    \A k \in DOMAIN last.preTasks :
        /\ k \in DOMAIN tasks
        /\ tasks[k].id = last.preTasks[k].id
        /\ tasks[k].order = last.preTasks[k].order

\* C9 (as claimed): createTask gives the new task an order, and updateTask
\* without an order field, updateTaskStatus, toggleTaskToday and the edit
\* dialog's save leave the order of every task unchanged.
C9_OrderAssignedAtCreation ==
    /\ last.op = "createTask" => tasks[Len(tasks)].order # Absent
    /\ IsTaskEdit => OrdersKept

\* C9 (amended): createTask assigns no order: the new task carries the order
\* its caller passed, or none; the orders of the tasks already there are kept
\* by createTask, and by updateTask without an order field, updateTaskStatus,
\* toggleTaskToday and the edit dialog's save.
C9_OrderChangedOnlyByMove ==
    /\ last.op = "createTask" =>
          /\ Len(tasks) = Len(last.preTasks) + 1
          /\ tasks[Len(tasks)].order
               = (IF "order" \in DOMAIN last.input THEN last.input.order ELSE Absent)
          /\ OrdersKept
    /\ IsTaskEdit => OrdersKept

\* C9 witness: createTask was called without an order on a list whose tasks
\* carry orders; the new task has none and the others kept theirs.
C9_Witness ==
    /\ last.op = "createTask"
    /\ "order" \notin DOMAIN last.input
    /\ Len(last.preTasks) = 2
    /\ \A k \in DOMAIN last.preTasks : last.preTasks[k].order # Absent
    /\ tasks[Len(tasks)].order = Absent

\* C10 (as claimed): when the board's task list holds a task whose status is
\* none of the five known statuses, tasksByStatus does not fail: it leaves
\* that task out of every column and returns the columns of the other tasks.
C10_UnknownStatusExcluded ==
    LET ft == FilteredTasks(BoardTasks, projectFilter)
    IN  (\E k \in DOMAIN ft : ft[k].status \notin ColumnIds) =>
            /\ ~Displayed.threw
            /\ \A c \in ColumnIds : Ids(Displayed.grouped[c]) = Column(ft, c)

\* a may stand before b in a column: lower order first, a task without an
\* order after every task that has one, createdAt ascending between equals
MayPrecede(a, b) ==
    \/ a.order # Absent /\ b.order = Absent
    \/ a.order # Absent /\ b.order # Absent /\ a.order < b.order
    \/ a.order = b.order /\ a.createdAt <= b.createdAt

\* C11: when the tasks shown all have a known status, tasksByStatus puts
\* each of them in exactly one column, the column of its status, and every
\* column is sorted by order ascending, createdAt ascending between tasks
\* whose order is equal or absent, tasks without an order last.
C11_ColumnProjection ==
    LET ft == FilteredTasks(BoardTasks, projectFilter)
        col == Displayed.grouped
    IN  (\A k \in DOMAIN ft : ft[k].status \in ColumnIds) =>
            /\ ~Displayed.threw
            /\ \A k \in DOMAIN ft : \A c \in ColumnIds :
                  Cardinality({n \in DOMAIN col[c] : col[c][n] = ft[k]})
                    = (IF c = ft[k].status THEN 1 ELSE 0)
            /\ \A c \in ColumnIds : \A n \in DOMAIN col[c] :
                  /\ \E k \in DOMAIN ft : ft[k] = col[c][n]
                  /\ n > 1 => MayPrecede(col[c][n - 1], col[c][n])

\* C11 witness: a column of three shown tasks in which a task without an
\* order was created before two tasks that share an order.
C11_Witness ==
    /\ ~Displayed.threw
    /\ \E c \in ColumnIds :
          /\ Len(Displayed.grouped[c]) = 3
          /\ Displayed.grouped[c][3].order = Absent
          /\ Displayed.grouped[c][1].order = Displayed.grouped[c][2].order
          /\ Displayed.grouped[c][3].createdAt < Displayed.grouped[c][1].createdAt

\* the last handler was given a drop of T whose destination index lies past
\* the end of the destination column
IsOutOfRangeDrop ==
    /\ IsDrop
    /\ last.input.destination.index
         > Len(Column(last.preLocal, last.input.destination.droppableId))

\* the same drop with its destination index clamped to the column's length
ClampedInput ==
    [last.input EXCEPT !.destination.index =
        Len(Column(last.preLocal, last.input.destination.droppableId))]

IsDropOnUnknownStatus ==
    \/ /\ last.op = "handleDragEnd"
       /\ last.input.hasDestination
       /\ \/ last.input.source.droppableId \notin ColumnIds
          \/ last.input.destination.droppableId \notin ColumnIds
    \/ /\ last.op = "kitHandleDragEnd"
       /\ last.input.over.kind = "droppable"
       /\ last.input.over.dataStatus \notin ColumnIds
       /\ last.input.over.rest \notin ColumnIds

\* C13: a drop whose destination or source status is none of the recognized
\* column statuses aborts with no updates: no task changes in the local list
\* or in AppContext, and nothing is saved.
C13_InvalidDestination == IsDropOnUnknownStatus => NothingChanged

\* C13 witness: a card of the optimistic board, taken from a column that holds
\* another card, was dropped on a droppable that is no column.
C13_Witness ==
    /\ IsDropOnUnknownStatus
    /\ last.op = "handleDragEnd"
    /\ last.input.source.droppableId \in ColumnIds
    /\ FindIndex(localTasks, last.input.draggableId) # 0
    /\ Len(Column(localTasks, last.input.source.droppableId)) > 1

\* C14 (as claimed): once every saveData call of the task actions run so far
\* has completed, the blob stored for the user holds the task list that
\* AppContext holds, whatever order the upserts reached the store in.
C14_StoredEqualsContext == inflight = {} => store = tasks

\* C15 (as claimed): when the store holds an AppData with at least one
\* profile, initializeData leaves the stored profiles as they were and
\* returns them, whatever the load request answered.
IsInitializeOverStoredProfiles ==
    /\ last.op = "initializeData"
    /\ last.preRow # Null
    /\ Len(last.preRow.profiles) > 0

C15_StoredProfilesKept ==
    IsInitializeOverStoredProfiles =>
        /\ userRow # Null
        /\ userRow.profiles = last.preRow.profiles
        /\ last.ret.profiles = last.preRow.profiles

\* C16 (as claimed): after resetData has returned, the returned AppData and
\* the stored row both consist of exactly one fresh default profile, with
\* currentProfileId set to it, whatever was stored before and whether or not
\* the delete request reported an error.
IsFreshDefault(d) ==
    /\ d # Null
    /\ Len(d.profiles) = 1
    /\ d.profiles[1] = CreateDefaultProfile(ProfileIdOf(clock))
    /\ d.currentProfileId = d.profiles[1].id

C16_ResetLeavesOneDefaultProfile ==
    last.op = "resetData" => IsFreshDefault(last.ret) /\ IsFreshDefault(userRow)

\* C17: the AppData returned by initializeData has at least one profile and
\* its currentProfileId is the id of one of them, and every sequence of
\* createProfile, renameProfile, switchProfile and deleteProfile keeps the
\* AppData of AppContext so: deleteProfile does nothing on the last profile,
\* deleting the current profile re-points currentProfileId to the first
\* remaining one, and switchProfile to an unknown id changes nothing.
ValidProfiles(d) ==
    /\ Len(d.profiles) >= 1
    /\ d.currentProfileId \in ProfileIds(d)

ProfileOpDidNothing ==
    /\ appData = last.preData
    /\ userRow = last.preRow
    /\ awaiting = last.preAwaiting

C17_ProfileInvariant ==
    /\ appData # Null => ValidProfiles(appData)
    /\ last.op = "initializeData" => ValidProfiles(last.ret)
    /\ last.op = "deleteProfile" /\ Len(last.preData.profiles) <= 1 => ProfileOpDidNothing
    /\ last.op = "switchProfile" /\ last.input.profileId \notin ProfileIds(last.preData)
            => ProfileOpDidNothing
    /\ last.op = "deleteProfile" /\ Len(last.preData.profiles) > 1
            => LET remaining == SelectSeq(last.preData.profiles,
                                          LAMBDA q : q.id # last.input.profileId)
                   current == IF last.preData.currentProfileId = last.input.profileId
                              THEN remaining[1].id
                              ELSE last.preData.currentProfileId
               IN  Suspended("deleteProfile", last.input.profileId,
                             AppDataOf(remaining, current)) \in awaiting
    /\ last.op = "deleteProfileResumed"
            => /\ last.input.profileId \notin ProfileIds(appData)
               /\ \E s \in last.preAwaiting : s.kind = "suspended" /\ s.newData = appData

\* deleteProfile of the current profile, one of two, has run to its end:
\* the other profile is now the current one
C17_Witness ==
    /\ last.op = "deleteProfileResumed"
    /\ Len(last.preData.profiles) = 2
    /\ last.input.profileId = last.preData.currentProfileId
    /\ Len(appData.profiles) = 1
    /\ appData.currentProfileId # last.input.profileId

RECURSIVE AppliedInTurn(_, _, _)
\* the task list after each call's update has been applied to the result of
\* the call before it
AppliedInTurn(ctx, calls, now) ==
    IF calls = <<>> THEN ctx
    ELSE AppliedInTurn(CallData(ctx, Head(calls), now), Tail(calls), now)

\* the last handler was the library-based board's handleDragEnd, given a drop
\* of task T on the area of a column other than its own
IsDropOnColumn == last.op = "kitHandleDragEnd" /\ last.outcome = "droppedOnColumn"

\* C18 (as claimed): in the library-based variant, after the updates of a
\* drop on the area of another column are applied, the task has that
\* column's status and is the last card of the sorted column, whatever the
\* column held, tasks without an order included.
C18_DroppedAtEndOfColumn ==
    IsDropOnColumn =>
        LET applied == AppliedInTurn(last.preTasks, last.calls, clock)
            id == last.input.activeId
            d == NewStatusOf(last.input.over)
            col == Column(FilteredTasks(applied, projectFilter), d)
        IN  /\ applied[FindIndex(applied, id)].status = d
            /\ col # <<>>
            /\ col[Len(col)] = id

\* the last handler was the library-based board's handleDragEnd, given a drop
\* of task T onto a task U of another column
IsDropOnOtherColumnTask ==
    last.op = "kitHandleDragEnd" /\ last.outcome = "droppedOnOtherColumnTask"

\* T has U's status and stands immediately before U in U's sorted column,
\* the column's other cards in the relative order they had
PlacedBefore(before, after, pf, id, overId) ==
    LET d == before[FindIndex(before, overId)].status
        was == Column(FilteredTasks(before, pf), d)
        col == Column(FilteredTasks(after, pf), d)
        k == FindIndex(after, id)
    IN  /\ after[k].status = d
        /\ \E n \in 1..(Len(col) - 1) : col[n] = id /\ col[n + 1] = overId
        /\ Without(col, id) = was

\* C19 (as claimed): in the library-based variant, once the updateTaskStatus
\* and updateTask calls of a drop of T onto a task U of another column have
\* run, T has U's status in AppContext and stands immediately before U in
\* the sorted destination column, the other tasks keeping their relative order.
C19_DroppedBeforeTask ==
    IsDropOnOtherColumnTask =>
        PlacedBefore(last.preTasks, tasks, projectFilter,
                     last.input.activeId, last.input.over.id)

\* The same with the two updates applied one after the other: T takes U's
\* order, and the tie is broken by createdAt, not in T's favour.
C19_DroppedBeforeTask_InTurn ==
    IsDropOnOtherColumnTask =>
        PlacedBefore(last.preTasks, AppliedInTurn(last.preTasks, last.calls, clock),
                     projectFilter, last.input.activeId, last.input.over.id)

\* the last handler ended with an updateTask or updateTaskStatus call on a
\* task of the rendered list: that call's AppData is the one AppContext holds
EndedWithUpdate ==
    /\ last.calls # <<>>
    /\ last.calls[Len(last.calls)].fn \in {"updateTask", "updateTaskStatus"}
    /\ FindIndex(last.preTasks, last.calls[Len(last.calls)].id) # 0

BecomesDone(t, updates) ==
    "status" \in DOMAIN updates /\ updates.status = "done" /\ t.status # "done"

\* C20: when updateTask or updateTaskStatus changes a task's status from a
\* status other than 'done' to 'done', the task it stores has a completedAt
\* (the time of the call); any other update leaves completedAt as it was,
\* unless the update supplies one, which is then stored.
C20_CompletedAt ==
    EndedWithUpdate =>
        LET call == last.calls[Len(last.calls)]
            k == FindIndex(last.preTasks, call.id)
            was == last.preTasks[k]
            now == tasks[k]
        IN  /\ now.id = was.id
            /\ IF BecomesDone(was, call.updates)
               THEN now.completedAt # Absent /\ now.completedAt = clock
               ELSE now.completedAt = IF "completedAt" \in DOMAIN call.updates
                                      THEN call.updates.completedAt
                                      ELSE was.completedAt
            /\ \E blob \in inflight : blob = tasks

\* updateTaskStatus(id, 'done') on a task that was not done and had no
\* completedAt
C20_Witness ==
    /\ EndedWithUpdate
    /\ last.op = "updateTaskStatus"
    /\ BecomesDone(last.preTasks[FindIndex(last.preTasks, last.input.id)], last.calls[1].updates)
    /\ last.preTasks[FindIndex(last.preTasks, last.input.id)].completedAt = Absent
    /\ tasks[FindIndex(tasks, last.input.id)].completedAt = clock

\* C21: after deleteProject(id) the current profile holds no project with
\* that id and no task whose projectId is id; every other project, and every
\* task of another project or of none, is there unchanged and in its place.
C21_DeleteProjectCascades ==
    last.op = "deleteProject" =>
        LET id == last.input.id
        IN  /\ \A i \in DOMAIN projects : projects[i].id # id
            /\ \A i \in DOMAIN tasks : tasks[i].projectId # id
            /\ projects = SelectSeq(last.preProjects, LAMBDA q : q.id # id)
            /\ tasks = SelectSeq(last.preTasks, LAMBDA t : t.projectId # id)
            /\ ProfileOf(projects, tasks) \in inflight

\* deleteProject of a project that had a task, in a profile with another
\* project and with tasks outside the deleted project
C21_Witness ==
    /\ last.op = "deleteProject"
    /\ \E i \in DOMAIN last.preProjects : last.preProjects[i].id = last.input.id
    /\ \E i \in DOMAIN last.preTasks : last.preTasks[i].projectId = last.input.id
    /\ Len(projects) >= 1
    /\ \E i \in DOMAIN tasks : tasks[i].projectId = NoProject
    /\ \E i \in DOMAIN tasks : tasks[i].projectId \notin {NoProject, last.input.id}

\* the last event was a submit of the signup form: a click on the button, an
\* Enter key or a submit event
IsSubmit == last.op \in {"buttonClick", "enterKey", "formSubmit"}

\* a signup is being processed: its request is in flight, or handleSubmit has
\* not yet reached its setIsLoading(false)
BeingProcessed(f) == f.signUp + f.waiting + f.checking + f.closing > 0

\* C22: at most one signUp request is in flight at any time, and a submit
\* (button click, Enter key or submit event) that arrives while a signup is
\* being processed is ignored, in every interleaving of the events with the
\* pending request and its continuation.
C22_SignupNotSubmittedTwice ==
    /\ signup # NoSignupForm => signup.signUp <= 1
    /\ IsSubmit /\ BeingProcessed(last.preSignup) => signup = last.preSignup

\* an Enter key arrived while the signUp request was in flight and changed
\* nothing
C22_Witness ==
    /\ last.op = "enterKey"
    /\ last.preSignup.signUp = 1
    /\ signup = last.preSignup

====
